---- MODULE Spec2Model ----
(***************************************************************************)
(* Ingestion pipeline of the IoT threat monitor backend:                   *)
(*   backend/mqtt_handler.py   on_message, process_sensor_data,            *)
(*                             detect_anomaly                              *)
(*   backend/firebase_config.py save_device_data, save_alert,              *)
(*                             update_device_status                        *)
(*                                                                         *)
(* The datastore is a path-addressed tree: /devices/{id}/readings (push),  *)
(* /devices/{id}/status (update = merge children, set = replace node) and  *)
(* /alerts (push).  Every remote write is one atomic step of the thread    *)
(* that runs the handler.                                                  *)
(*                                                                         *)
(* Numbers: anomaly scores are kept as integers, score * 10 (so that the   *)
(* severity threshold -0.5 is -5).  Timestamps (datetime.now().isoformat())*)
(* are kept as integers ordered like the ISO strings; the wall clock that  *)
(* datetime.now() reads is an input of the handler and is not monotonic.   *)
(* Message texts are kept as strings without their leading emoji and       *)
(* without the degree sign; numbers are formatted with ToString.           *)
(*                                                                         *)
(* The specifications share the pipeline actions: Spec delivers up to      *)
(* MaxMsgs messages out of LeanInputs (stateful behaviour over several     *)
(* readings), SpecFn delivers one message out of RichInputs (what the      *)
(* handler computes for one reading, over boundary values and topic        *)
(* shapes), SpecFail lets datastore calls fail, SpecConn and SpecConnLive  *)
(* add the connection life cycle, SpecAck adds app.py's acknowledge        *)
(* endpoint, SpecFb runs firebase_config's initialization from several     *)
(* threads.                                                                *)
(***************************************************************************)
EXTENDS Integers, Sequences, FiniteSets, TLC

VARIABLES
    universe,      \* the inputs the environment may deliver (fixed by Init)
    budget,        \* number of messages the broker will still deliver
    model,         \* mqtt_handler.model / scaler: "loaded" or "none"
    pc,            \* position of each network-loop thread
    cur,           \* the message each network-loop thread is working on
    readings,      \* /devices/{id}/readings : device_id -> Seq(reading_data)
    status,        \* /devices/{id}/status   : device_id -> row (partial record)
    alerts,        \* /alerts                : Seq(alert_data), in push order
    statusWrites,  \* history: the status writes applied, in order
    faults,        \* number of datastore calls the environment will still fail
    trace,         \* history: the steps of every handled message, in order
    conn,          \* transport session, network loop, is_connected, main thread
    orphans,       \* /alerts/{id} nodes that no push created : id -> row
    ackLog,        \* history: the acknowledge requests answered, in order
    fb             \* firebase_config._firebase_app, the SDK's app registry, callers

apiVars == <<orphans, ackLog, fb>>

vars == <<universe, budget, model, pc, cur, readings, status, alerts, statusWrites,
          faults, trace, conn, orphans, ackLog, fb>>

----------------------------------------------------------------------------
(* Bounds *)

MaxMsgs == 3
MaxTime == 2
MaxFailMsgs == 3      \* messages delivered when datastore calls may fail
MaxFaults == 2        \* datastore calls that may fail
MaxConnMsgs == 2      \* messages delivered in the connection life cycle
MaxLosses == 2        \* unexpected connection losses
MaxAckMsgs == 1       \* messages delivered while alerts are acknowledged
MaxAcks == 2          \* acknowledge requests
MaxFbCalls == 4       \* calls of get_database_reference / initialize_firebase
MaxFbFails == 1       \* initialization attempts the environment makes fail

Times == 1..MaxTime

----------------------------------------------------------------------------
(* Program constants *)

GasThreshold == 500
TempHigh == 40
TempLow == 10
HumHigh == 80
HumLow == 20
EnvGasHigh == 500
SevHighBelow == -5          \* score < -0.5, scores are kept * 10

----------------------------------------------------------------------------
(* Data *)

EmptyRow == [k \in {} |-> 0]

NoMsg == [branch |-> "none"]

NoAlert == [type |-> "none"]

Get(data, key, default) == IF key \in DOMAIN data THEN data[key] ELSE default

\* Variant of Merge: children already present are kept (operands swapped).
MergeOldWins(old, new) ==
    [k \in (DOMAIN old) \cup (DOMAIN new) |->
        IF k \in DOMAIN old THEN old[k] ELSE new[k]]

\* Reference.update(): children named in new are written, the others kept.
Merge(old, new) ==
    [k \in (DOMAIN old) \cup (DOMAIN new) |->
        IF k \in DOMAIN new THEN new[k] ELSE old[k]]

\* Variant of Join: the separator is left out.
RECURSIVE JoinNoSeparator(_, _)
JoinNoSeparator(strs, sep) ==
    IF Len(strs) = 0 THEN ""
    ELSE strs[1] \o JoinNoSeparator(Tail(strs), sep)

RECURSIVE Join(_, _)
Join(strs, sep) ==
    IF Len(strs) = 0 THEN ""
    ELSE IF Len(strs) = 1 THEN strs[1]
    ELSE strs[1] \o sep \o Join(Tail(strs), sep)

----------------------------------------------------------------------------
(* on_message: topic -> sensor_type, device_id.  A topic is kept as the    *)
(* list msg.topic.split("/") yields (never empty).                         *)

SensorTypeOf(topic_parts) ==
    IF Len(topic_parts) >= 3 THEN topic_parts[2]
    ELSE IF Len(topic_parts) >= 2 THEN topic_parts[2]
    ELSE "unknown"

\* Variant of DeviceIdOf: the device name alone when the topic has one.
DeviceIdOfNameOnly(topic_parts) ==
    IF Len(topic_parts) >= 3 THEN topic_parts[3]
    ELSE IF Len(topic_parts) >= 2 THEN topic_parts[2] \o "_" \o "default"
    ELSE "unknown_device"

DeviceIdOf(topic_parts) ==
    IF Len(topic_parts) >= 3 THEN topic_parts[2] \o "_" \o topic_parts[3]
    ELSE IF Len(topic_parts) >= 2 THEN topic_parts[2] \o "_" \o "default"
    ELSE "unknown_device"

----------------------------------------------------------------------------
(* detect_anomaly.  clf is what scaler.transform / model.predict /         *)
(* model.decision_function answer for this sample: [raises, prediction,    *)
(* score]; the classifier is opaque.                                       *)

\* Variant of EnvReasons: no generic reason when no bound check triggers.
EnvReasonsNoFallback(temperature, humidity, gas_level) ==
    (IF temperature > TempHigh \/ temperature < TempLow
     THEN <<"Abnormal temperature: " \o ToString(temperature) \o "C">>
     ELSE <<>>)
    \o (IF humidity > HumHigh \/ humidity < HumLow
        THEN <<"Abnormal humidity: " \o ToString(humidity) \o "%">>
        ELSE <<>>)
    \o (IF gas_level > EnvGasHigh
        THEN <<"High gas level detected: " \o ToString(gas_level)>>
        ELSE <<>>)

\* Variant of EnvReasons: the bounds themselves count as abnormal.
EnvReasonsInclusive(temperature, humidity, gas_level) ==
    LET r1 == IF temperature >= TempHigh \/ temperature <= TempLow
              THEN <<"Abnormal temperature: " \o ToString(temperature) \o "C">>
              ELSE <<>>
        r2 == IF humidity >= HumHigh \/ humidity <= HumLow
              THEN <<"Abnormal humidity: " \o ToString(humidity) \o "%">>
              ELSE <<>>
        r3 == IF gas_level >= EnvGasHigh
              THEN <<"High gas level detected: " \o ToString(gas_level)>>
              ELSE <<>>
        rs == r1 \o r2 \o r3
    IN  IF rs = <<>> THEN <<"Unusual sensor pattern detected">> ELSE rs

EnvReasons(temperature, humidity, gas_level) ==
    LET r1 == IF temperature > TempHigh \/ temperature < TempLow
              THEN <<"Abnormal temperature: " \o ToString(temperature) \o "C">>
              ELSE <<>>
        r2 == IF humidity > HumHigh \/ humidity < HumLow
              THEN <<"Abnormal humidity: " \o ToString(humidity) \o "%">>
              ELSE <<>>
        r3 == IF gas_level > EnvGasHigh
              THEN <<"High gas level detected: " \o ToString(gas_level)>>
              ELSE <<>>
        rs == r1 \o r2 \o r3
    IN  IF rs = <<>> THEN <<"Unusual sensor pattern detected">> ELSE rs

\* Variant of DetectAnomaly: fails closed when the model is not loaded.
DetectAnomalyFailClosed(mdl, clf, temperature, humidity, gas_level) ==
    IF mdl = "none"
    THEN [raised |-> FALSE, is_anomaly |-> TRUE, score |-> 0,
          reasons |-> <<"Model unavailable">>]
    ELSE IF clf.raises
    THEN [raised |-> FALSE, is_anomaly |-> FALSE, score |-> 0, reasons |-> <<>>]
    ELSE LET is_anomaly == clf.prediction = -1
         IN  [raised     |-> FALSE,
              is_anomaly |-> is_anomaly,
              score      |-> clf.score,
              reasons    |-> IF is_anomaly
                             THEN EnvReasons(temperature, humidity, gas_level)
                             ELSE <<>>]

\* Variant of DetectAnomaly: no try/except around the scoring path.
DetectAnomalyNoTry(mdl, clf, temperature, humidity, gas_level) ==
    IF mdl = "none"
    THEN [raised |-> FALSE, is_anomaly |-> FALSE, score |-> 0, reasons |-> <<>>]
    ELSE IF clf.raises
    THEN [raised |-> TRUE, is_anomaly |-> FALSE, score |-> 0, reasons |-> <<>>]
    ELSE LET is_anomaly == clf.prediction = -1
         IN  [raised     |-> FALSE,
              is_anomaly |-> is_anomaly,
              score      |-> clf.score,
              reasons    |-> IF is_anomaly
                             THEN EnvReasons(temperature, humidity, gas_level)
                             ELSE <<>>]

\* raised: whether an exception leaves the function (the try/except of the
\* scoring path returns (False, 0, []) instead).
DetectAnomaly(mdl, clf, temperature, humidity, gas_level) ==
    IF mdl = "none"
    THEN [raised |-> FALSE, is_anomaly |-> FALSE, score |-> 0, reasons |-> <<>>]
    ELSE IF clf.raises
    THEN [raised |-> FALSE, is_anomaly |-> FALSE, score |-> 0, reasons |-> <<>>]
    ELSE LET is_anomaly == clf.prediction = -1
         IN  [raised     |-> FALSE,
              is_anomaly |-> is_anomaly,
              score      |-> clf.score,
              reasons    |-> IF is_anomaly
                             THEN EnvReasons(temperature, humidity, gas_level)
                             ELSE <<>>]

\* An exception raised before the first datastore call of the handler.
Raised(exc) == [branch |-> "raised", exc |-> exc]

----------------------------------------------------------------------------
(* process_sensor_data: what the handler computes before and between its   *)
(* datastore calls.  The result names the three writes it will issue.      *)

\* Variant of PirMotionDetected: the literal truth value (non-zero = motion).
PirMotionDetectedTruthy(pir_value) == pir_value # 0

PirMotionDetected(pir_value) == pir_value = 0

\* Variant of PirValueOf: a missing field reads as 1 (no motion).
PirValueOfDefaultOne(data) == Get(data, "pir_motion", 1)

PirValueOf(data) == Get(data, "pir_motion", 0)

PirBranch(device_id, data, timestamp) ==
    LET pir_value == PirValueOf(data)
        motion_detected == PirMotionDetected(pir_value)
    IN  [branch       |-> "pir",
         device_id    |-> device_id,
         timestamp    |-> timestamp,
         is_anomaly   |-> motion_detected,
         reading_data |-> [sensor_type     |-> "pir",
                           pir_motion      |-> pir_value,
                           motion_detected |-> motion_detected,
                           timestamp       |-> timestamp,
                           is_anomaly      |-> motion_detected],
         status_update |-> [state           |-> IF motion_detected THEN "threat" ELSE "normal",
                            last_seen       |-> timestamp,
                            sensor_type     |-> "pir",
                            motion_detected |-> motion_detected],
         alert_data   |-> IF motion_detected
                          THEN [device_id    |-> device_id,
                                timestamp    |-> timestamp,
                                type         |-> "motion",
                                severity     |-> "high",
                                pir_motion   |-> pir_value,
                                message      |-> "Motion Detected!",
                                acknowledged |-> FALSE]
                          ELSE NoAlert]

\* Variant of GasIsHigh: inclusive comparison.
GasIsHighInclusive(gas_value) == gas_value >= GasThreshold

GasIsHigh(gas_value) == gas_value > GasThreshold

GasValueOf(data) == Get(data, "gas_value", Get(data, "gas_level", 0))

GasBranch(device_id, data, timestamp) ==
    LET gas_value == GasValueOf(data)
        is_high_gas == GasIsHigh(gas_value)
    IN  [branch       |-> "gas",
         device_id    |-> device_id,
         timestamp    |-> timestamp,
         is_anomaly   |-> is_high_gas,
         reading_data |-> [sensor_type |-> "gas",
                           gas_value   |-> gas_value,
                           gas_level   |-> gas_value,
                           is_high     |-> is_high_gas,
                           timestamp   |-> timestamp,
                           is_anomaly  |-> is_high_gas],
         status_update |-> [state       |-> IF is_high_gas THEN "threat" ELSE "normal",
                            last_seen   |-> timestamp,
                            sensor_type |-> "gas",
                            gas_level   |-> gas_value,
                            is_high     |-> is_high_gas],
         alert_data   |-> IF is_high_gas
                          THEN [device_id    |-> device_id,
                                timestamp    |-> timestamp,
                                type         |-> "gas",
                                severity     |-> "high",
                                gas_level    |-> gas_value,
                                message      |-> "High Gas Level Detected: " \o ToString(gas_value),
                                acknowledged |-> FALSE]
                          ELSE NoAlert]

\* Variant of AnomalySeverity: inclusive comparison.
AnomalySeverityInclusive(score) == IF score <= SevHighBelow THEN "high" ELSE "medium"

AnomalySeverity(score) == IF score < SevHighBelow THEN "high" ELSE "medium"

EnvBranch(device_id, data, sensor_type, timestamp, mdl, clf) ==
    LET temperature == Get(data, "temperature", 0)
        humidity    == Get(data, "humidity", 0)
        gas_level   == Get(data, "gas_level", 0)
        v           == DetectAnomaly(mdl, clf, temperature, humidity, gas_level)
    IN  IF v.raised THEN Raised("Exception") ELSE
        [branch       |-> "env",
         device_id    |-> device_id,
         timestamp    |-> timestamp,
         is_anomaly   |-> v.is_anomaly,
         reasons      |-> v.reasons,
         reading_data |-> [sensor_type   |-> sensor_type,
                           temperature   |-> temperature,
                           humidity      |-> humidity,
                           gas_level     |-> gas_level,
                           location      |-> Get(data, "location", "Unknown"),
                           rssi          |-> Get(data, "rssi", 0),
                           uptime        |-> Get(data, "uptime", 0),
                           timestamp     |-> timestamp,
                           is_anomaly    |-> v.is_anomaly,
                           anomaly_score |-> v.score],
         status_update |-> [state       |-> IF v.is_anomaly THEN "threat" ELSE "normal",
                            last_seen   |-> timestamp,
                            sensor_type |-> sensor_type,
                            temperature |-> temperature,
                            humidity    |-> humidity,
                            gas_level   |-> gas_level],
         alert_data   |-> IF v.is_anomaly
                          THEN [device_id     |-> device_id,
                                timestamp     |-> timestamp,
                                type          |-> "anomaly",
                                severity      |-> AnomalySeverity(v.score),
                                temperature   |-> temperature,
                                humidity      |-> humidity,
                                gas_level     |-> gas_level,
                                anomaly_score |-> v.score,
                                reasons       |-> v.reasons,
                                message       |-> IF v.reasons # <<>>
                                                  THEN Join(v.reasons, " | ")
                                                  ELSE "Anomaly detected",
                                acknowledged  |-> FALSE]
                          ELSE NoAlert]

ProcessSensorData(device_id, data, sensor_type, timestamp, mdl, clf) ==
    IF sensor_type = "pir" \/ "pir_motion" \in DOMAIN data
    THEN PirBranch(device_id, data, timestamp)
    ELSE IF sensor_type = "gas" \/ "gas_value" \in DOMAIN data
    THEN GasBranch(device_id, data, timestamp)
    ELSE EnvBranch(device_id, data, sensor_type, timestamp, mdl, clf)

----------------------------------------------------------------------------
(* Inputs.  One input is one delivered MQTT message together with what the *)
(* opaque classifier answers for it: topic (already split), whether the    *)
(* payload bytes parse as JSON, the parsed object, the classifier answer.  *)

ClfNormal == [raises |-> FALSE, prediction |-> 1, score |-> 1]
ClfHigh   == [raises |-> FALSE, prediction |-> -1, score |-> -6]
ClfMedium == [raises |-> FALSE, prediction |-> -1, score |-> -5]
ClfRaises == [raises |-> TRUE, prediction |-> 1, score |-> 0]

Input(topic, json, data, clf) ==
    [topic |-> topic, json |-> json, data |-> data, clf |-> clf]

TopicPir == <<"iot-cybot", "pir", "test">>
TopicGas == <<"iot-cybot", "gas", "test">>
TopicEnv == <<"iot-cybot", "sensors", "dev1">>

LeanInputs ==
    { Input(TopicPir, "object", [pir_motion |-> 0], ClfNormal),
      Input(TopicPir, "object", [pir_motion |-> 1], ClfNormal),
      Input(TopicGas, "object", [gas_value |-> 800], ClfNormal),
      Input(TopicGas, "object", [gas_value |-> 100], ClfNormal),
      Input(TopicEnv, "object", [temperature |-> 25, humidity |-> 50, gas_level |-> 200], ClfNormal),
      Input(TopicEnv, "object", [temperature |-> 25, humidity |-> 50, gas_level |-> 200], ClfHigh),
      Input(TopicPir, "malformed", EmptyRow, ClfNormal) }

RichTopics ==
    { TopicPir, TopicGas, TopicEnv, <<"iot-cybot", "pir">>, <<"iot-cybot">>,
      <<"x", "pir", "sensor1", "raw">> }

RichPayloads ==
    { EmptyRow,
      [pir_motion |-> 0], [pir_motion |-> 1], [pir_motion |-> 2],
      [gas_value |-> 500], [gas_value |-> 501], [gas_value |-> 800],
      [gas_level |-> 800], [gas_level |-> 100],
      [gas_value |-> 100, gas_level |-> 900],
      [pir_motion |-> 1, gas_value |-> 800],
      [temperature |-> 25, humidity |-> 50, gas_level |-> 200],
      [temperature |-> 41, humidity |-> 50, gas_level |-> 200],
      [temperature |-> 40, humidity |-> 80, gas_level |-> 500],
      [temperature |-> 9, humidity |-> 19, gas_level |-> 501],
      [temperature |-> 10, humidity |-> 20, gas_level |-> 0],
      [temperature |-> 25, humidity |-> 81, gas_level |-> 200] }

RichInputs ==
    { Input(tp, "object", d, c) :
        tp \in RichTopics, d \in RichPayloads,
        c \in {ClfNormal, ClfHigh, ClfMedium, ClfRaises} }
    \cup { Input(tp, "malformed", EmptyRow, ClfNormal) : tp \in RichTopics }

Devices == { DeviceIdOf(i.topic) : i \in LeanInputs \cup RichInputs }

\* Variant of LoopThreads: a second worker runs handlers concurrently.
LoopThreadsPerMessage == {"loop", "worker"}

\* mqtt_client.loop_start(): one background thread runs every callback.
LoopThreads == {"loop"}

----------------------------------------------------------------------------
(* Inputs of the other specifications.  json tells what the payload bytes  *)
(* are: "object" (a JSON object), "malformed" (json.loads raises           *)
(* JSONDecodeError), "undecodable" (bytes.decode('utf-8') raises           *)
(* UnicodeDecodeError), "non_object" (valid JSON that is not an object:    *)
(* `in` / .get raise TypeError or AttributeError before the first write).  *)

FailInputs ==
    { Input(TopicPir, "object", [pir_motion |-> 0], ClfNormal),
      Input(TopicPir, "object", [pir_motion |-> 1], ClfNormal),
      Input(TopicEnv, "object", [temperature |-> 45, humidity |-> 50, gas_level |-> 200], ClfRaises),
      Input(TopicPir, "malformed", EmptyRow, ClfNormal),
      Input(TopicGas, "undecodable", EmptyRow, ClfNormal),
      Input(TopicEnv, "non_object", EmptyRow, ClfNormal) }

ConnInputs ==
    { Input(TopicPir, "object", [pir_motion |-> 0], ClfNormal),
      Input(TopicGas, "object", [gas_value |-> 100], ClfNormal) }

----------------------------------------------------------------------------
(* Connection: the paho client behind mqtt_client, the global is_connected *)
(* and the main thread.                                                    *)
(*   session: "none" (never connected), "connecting" (CONNECT sent),       *)
(*            "connected" (CONNACK 0), "refused" (CONNACK non-zero),       *)
(*            "lost" (transport failure), "closed" (DISCONNECT sent)       *)
(*   loop:    "none", "running" (loop_start), "stopped" (loop_stop)        *)
(*   main:    "start", "serving", "disconnecting", "stopped"               *)
(*   subs, unsubs, acks: subscribe / unsubscribe calls issued, CONNACK 0   *)
(*   received; subscribed: the session holds the subscriptions.            *)

ConnStart ==
    [is_connected |-> FALSE, session |-> "none", loop |-> "none", main |-> "start",
     subscribed |-> FALSE, subs |-> 0, unsubs |-> 0, acks |-> 0, losses |-> 0]

\* Started, handshake done, subscribed: the state in which messages arrive.
ConnServing ==
    [is_connected |-> TRUE, session |-> "connected", loop |-> "running", main |-> "serving",
     subscribed |-> TRUE, subs |-> 1, unsubs |-> 0, acks |-> 1, losses |-> 0]

\* Variant of OnConnect: the subscription is issued on the first connect only.
OnConnectSubscribeOnce(c, rc) ==
    IF rc = 0
    THEN [c EXCEPT !.is_connected = TRUE,
                   !.subs = IF c.subs = 0 THEN 1 ELSE c.subs,
                   !.subscribed = (c.subs = 0)]
    ELSE [c EXCEPT !.is_connected = FALSE]

\* on_connect(client, userdata, flags, rc)
OnConnect(c, rc) ==
    IF rc = 0
    THEN [c EXCEPT !.is_connected = TRUE,
                   !.subs = c.subs + 1,
                   !.subscribed = TRUE]
    ELSE [c EXCEPT !.is_connected = FALSE]

\* Variant of OnDisconnect: the flag is cleared on a clean disconnect only.
OnDisconnectCleanOnly(c, rc) ==
    IF rc = 0 THEN [c EXCEPT !.is_connected = FALSE] ELSE c

\* on_disconnect(client, userdata, rc)
OnDisconnect(c, rc) == [c EXCEPT !.is_connected = FALSE]

\* get_mqtt_status()["connected"]
MqttStatusConnected == conn.is_connected

----------------------------------------------------------------------------
(* firebase_config: the module global _firebase_app, the default app of    *)
(* the SDK (firebase_admin keeps it in a registry guarded by its own lock  *)
(* and raises ValueError when it is initialized twice), and the threads    *)
(* that call get_database_reference / initialize_firebase.                 *)

FbThreads == {"mqtt", "api1", "api2"}

\* Alert ids a client may send that no push has generated.
UnknownIds == {"no_such_alert"}

\* main's initialize_firebase() returned True before the threads started.
FbReady ==
    [app   |-> TRUE,                         \* _firebase_app is not None
     sdk   |-> TRUE,                         \* the SDK's default app exists
     inits |-> 1,                            \* successful initialize_app calls
     fails |-> 0,                            \* attempts the environment will fail
     calls |-> 0,                            \* calls begun
     tpc   |-> [c \in FbThreads |-> "idle"],
     began |-> [c \in FbThreads |-> "none"],
     log   |-> <<>>]                         \* calls returned: [began, ref]

\* main's initialize_firebase() returned False (main goes on with a warning).
FbDown ==
    [app   |-> FALSE,
     sdk   |-> FALSE,
     inits |-> 0,
     fails |-> MaxFbFails,
     calls |-> 0,
     tpc   |-> [c \in FbThreads |-> "idle"],
     began |-> [c \in FbThreads |-> "none"],
     log   |-> <<>>]

----------------------------------------------------------------------------
(* Initial states.  Spec, SpecFn, SpecFail start where messages arrive     *)
(* (initialize() done, handshake done), datastore empty, model loaded or   *)
(* not (load_ml_model returned True or False).  SpecConn starts before     *)
(* start_mqtt_client.                                                      *)

InitCommon ==
    /\ model \in {"loaded", "none"}
    /\ pc = [t \in LoopThreads |-> "idle"]
    /\ cur = [t \in LoopThreads |-> NoMsg]
    /\ readings = [d \in Devices |-> <<>>]
    /\ status = [d \in Devices |-> EmptyRow]
    /\ alerts = <<>>
    /\ statusWrites = <<>>
    /\ trace = <<>>
    /\ orphans = [k \in UnknownIds |-> EmptyRow]
    /\ ackLog = <<>>

Init ==
    /\ InitCommon
    /\ fb = FbReady
    /\ universe = LeanInputs
    /\ budget = MaxMsgs
    /\ faults = 0
    /\ conn = ConnServing

InitFn ==
    /\ InitCommon
    /\ fb = FbReady
    /\ universe = RichInputs
    /\ budget = 1
    /\ faults = 0
    /\ conn = ConnServing

InitFail ==
    /\ InitCommon
    /\ fb = FbReady
    /\ universe = FailInputs
    /\ budget = MaxFailMsgs
    /\ faults = MaxFaults
    /\ conn = ConnServing

InitConn ==
    /\ InitCommon
    /\ fb = FbReady
    /\ universe = ConnInputs
    /\ budget = MaxConnMsgs
    /\ faults = 0
    /\ conn = ConnStart

----------------------------------------------------------------------------
(* Actions of the ingestion pipeline *)

\* Variant of DecodePayload: a payload that does not parse is taken as {}.
DecodePayloadLenient(m) ==
    IF m.json = "undecodable" THEN [exc |-> "UnicodeDecodeError", kind |-> "none"]
    ELSE IF m.json = "malformed" THEN [exc |-> "none", kind |-> "object"]
    ELSE [exc |-> "none", kind |-> m.json]

\* msg.payload.decode('utf-8') and json.loads: the exception raised, if any.
DecodePayload(m) ==
    IF m.json = "undecodable" THEN [exc |-> "UnicodeDecodeError", kind |-> "none"]
    ELSE IF m.json = "malformed" THEN [exc |-> "JSONDecodeError", kind |-> "none"]
    ELSE [exc |-> "none", kind |-> m.json]

\* Variant of OnMessageCatches: only the JSONDecodeError clause.
OnMessageCatchesJsonOnly(exc) == exc = "JSONDecodeError"

\* The except clauses of on_message: json.JSONDecodeError, then Exception.
OnMessageCatches(exc) ==
    \/ exc = "JSONDecodeError"
    \/ exc \in {"UnicodeDecodeError", "AttributeError", "TypeError", "Exception"}

\* One step of a handled message: id, the step, whether it succeeded.
Ev(id, step, ok) == [id |-> id, step |-> step, ok |-> ok]

\* What a datastore call may do now: succeed, or raise while faults remain.
WriteOutcomes == {TRUE} \cup (IF faults > 0 THEN {FALSE} ELSE {})

\* Messages are handed to on_message by the running network loop of a
\* connected session.
CanDeliver == conn.loop = "running" /\ conn.session = "connected"

\* The number of the message handled next.
NextId == Cardinality({ i \in DOMAIN trace : trace[i].step = "decode" }) + 1

\* on_message up to the first datastore call of process_sensor_data.
\* An exception raised on the way is caught by the except clauses and the
\* message is dropped; an exception not caught ends the network-loop thread.
OnMessage(t) ==
    /\ pc[t] = "idle"
    /\ budget > 0
    /\ CanDeliver
    /\ \E m \in universe, now \in Times :
         LET id  == NextId
             dec == DecodePayload(m)
             sensor_type == SensorTypeOf(m.topic)
             device_id   == DeviceIdOf(m.topic)
             plan == IF dec.exc # "none" THEN Raised(dec.exc)
                     ELSE IF dec.kind = "non_object" THEN Raised("AttributeError")
                     ELSE ProcessSensorData(device_id, m.data, sensor_type,
                                            now, model, m.clf)
             ghost == [id     |-> id,
                       topic  |-> m.topic,
                       data   |-> m.data,
                       clf    |-> m.clf,
                       alert_ret |-> -1,
                       before |-> status[device_id],
                       replay |-> \E i \in 1..Len(readings[device_id]) :
                                     readings[device_id][i] = plan.reading_data]
             decoded == [id |-> id, step |-> "decode", ok |-> dec.exc = "none",
                         json |-> m.json]
         IN  /\ budget' = budget - 1
             /\ IF plan.branch = "raised"
                THEN /\ cur' = [cur EXCEPT ![t] = NoMsg]
                     /\ pc' = [pc EXCEPT ![t] = IF OnMessageCatches(plan.exc)
                                                THEN "idle" ELSE "crashed"]
                     /\ trace' = IF dec.exc # "none"
                                 THEN Append(trace, decoded)
                                 ELSE trace \o <<decoded, Ev(id, "detect", FALSE)>>
                ELSE /\ cur' = [cur EXCEPT ![t] = Merge(plan, ghost)]
                     /\ pc' = [pc EXCEPT ![t] = "save_device_data"]
                     /\ trace' = trace \o <<decoded, Ev(id, "detect", TRUE)>>
    /\ UNCHANGED <<apiVars, universe, model, readings, status, alerts, statusWrites, faults, conn>>

\* Variant of SaveDeviceData: an anomalous reading goes to save_alert first,
\* the status update is left out.
SaveDeviceDataThenAlert(t) ==
    /\ pc[t] = "save_device_data"
    /\ \E ok \in WriteOutcomes :
         /\ readings' = IF ok
                        THEN [readings EXCEPT ![cur[t].device_id] = Append(@, cur[t].reading_data)]
                        ELSE readings
         /\ faults' = IF ok THEN faults ELSE faults - 1
         /\ trace' = Append(trace, Ev(cur[t].id, "append_reading", ok))
    /\ pc' = [pc EXCEPT ![t] = IF cur[t].is_anomaly THEN "save_alert_push"
                                ELSE "update_device_status"]
    /\ UNCHANGED <<apiVars, universe, budget, model, cur, status, alerts, statusWrites, conn>>

\* Variant of SaveDeviceData: a failed append ends the handling of the message.
SaveDeviceDataAbortOnFailure(t) ==
    /\ pc[t] = "save_device_data"
    /\ \E ok \in WriteOutcomes :
         /\ readings' = IF ok
                        THEN [readings EXCEPT ![cur[t].device_id] = Append(@, cur[t].reading_data)]
                        ELSE readings
         /\ faults' = IF ok THEN faults ELSE faults - 1
         /\ trace' = Append(trace, Ev(cur[t].id, "append_reading", ok))
         /\ pc' = [pc EXCEPT ![t] = IF ok THEN "update_device_status" ELSE "idle"]
    /\ UNCHANGED <<apiVars, universe, budget, model, cur, status, alerts, statusWrites, conn>>

\* save_device_data: ref.push(data) under /devices/{id}/readings; an
\* exception is caught inside and None returned, the handler goes on.
SaveDeviceData(t) ==
    /\ pc[t] = "save_device_data"
    /\ \E ok \in WriteOutcomes :
         /\ readings' = IF ok
                        THEN [readings EXCEPT ![cur[t].device_id] = Append(@, cur[t].reading_data)]
                        ELSE readings
         /\ faults' = IF ok THEN faults ELSE faults - 1
         /\ trace' = Append(trace, Ev(cur[t].id, "append_reading", ok))
    /\ pc' = [pc EXCEPT ![t] = "update_device_status"]
    /\ UNCHANGED <<apiVars, universe, budget, model, cur, status, alerts, statusWrites, conn>>

\* Variant of UpdateDeviceStatus: the update is applied under /devices, to
\* the status of every device.
UpdateDeviceStatusAll(t) ==
    /\ pc[t] = "update_device_status"
    /\ \E ok \in WriteOutcomes :
         /\ status' = IF ok
                      THEN [d \in Devices |-> Merge(status[d], cur[t].status_update)]
                      ELSE status
         /\ statusWrites' =
               IF ok
               THEN Append(statusWrites,
                           [id |-> cur[t].id, device_id |-> cur[t].device_id, op |-> "update",
                            last_seen |-> cur[t].status_update.last_seen])
               ELSE statusWrites
         /\ faults' = IF ok THEN faults ELSE faults - 1
         /\ trace' = Append(trace, Ev(cur[t].id, "update_status", ok))
    /\ pc' = [pc EXCEPT ![t] = IF cur[t].is_anomaly THEN "save_alert_push" ELSE "idle"]
    /\ UNCHANGED <<apiVars, universe, budget, model, cur, readings, alerts, conn>>

\* update_device_status: ref.update(status) under /devices/{id}/status; an
\* exception is caught inside and False returned.  Then the branch either
\* calls save_alert or returns.
UpdateDeviceStatus(t) ==
    /\ pc[t] = "update_device_status"
    /\ \E ok \in WriteOutcomes :
         /\ status' = IF ok
                      THEN [status EXCEPT ![cur[t].device_id] = Merge(@, cur[t].status_update)]
                      ELSE status
         /\ statusWrites' =
               IF ok
               THEN Append(statusWrites,
                           [id |-> cur[t].id, device_id |-> cur[t].device_id, op |-> "update",
                            last_seen |-> cur[t].status_update.last_seen])
               ELSE statusWrites
         /\ faults' = IF ok THEN faults ELSE faults - 1
         /\ trace' = Append(trace, Ev(cur[t].id, "update_status", ok))
    /\ pc' = [pc EXCEPT ![t] = IF cur[t].is_anomaly THEN "save_alert_push" ELSE "idle"]
    /\ UNCHANGED <<apiVars, universe, budget, model, cur, readings, alerts, conn>>

\* Variant of SaveAlertPush: the push is issued twice (retry after the first).
SaveAlertPushTwice(t) ==
    /\ pc[t] = "save_alert_push"
    /\ alerts' = Append(Append(alerts, cur[t].alert_data), cur[t].alert_data)
    /\ trace' = Append(trace, Ev(cur[t].id, "push_alert", TRUE))
    /\ pc' = [pc EXCEPT ![t] = "save_alert_status"]
    /\ UNCHANGED <<apiVars, universe, budget, model, cur, readings, status, statusWrites, faults, conn>>

\* save_alert, first write: ref.push(alert_data) under /alerts.  An
\* exception leaves the try block: save_alert returns None.
SaveAlertPush(t) ==
    /\ pc[t] = "save_alert_push"
    /\ \E ok \in WriteOutcomes :
         /\ alerts' = IF ok THEN Append(alerts, cur[t].alert_data) ELSE alerts
         /\ faults' = IF ok THEN faults ELSE faults - 1
         /\ trace' = Append(trace, Ev(cur[t].id, "push_alert", ok))
         /\ pc' = [pc EXCEPT ![t] = IF ok THEN "save_alert_status" ELSE "idle"]
         /\ cur' = IF ok THEN cur ELSE [cur EXCEPT ![t].alert_ret = 0]
    /\ UNCHANGED <<apiVars, universe, budget, model, readings, status, statusWrites, conn>>

\* The row save_alert writes with status_ref.set(): set replaces the node.
AlertStatusRow(old, alert_data) ==
    [state      |-> "threat",
     last_alert |-> alert_data.timestamp,
     message    |-> alert_data.message]

\* What save_alert returns after the push succeeded: new_ref.key (here the
\* position of the alert under /alerts) when the status write went through,
\* None (0) when it raised: the except clause is the one of the whole block.
SaveAlertReturn(key, status_ok) == IF status_ok THEN key ELSE 0

\* save_alert, second write: status_ref.set({...}) under /devices/{id}/status.
SaveAlertStatus(t) ==
    /\ pc[t] = "save_alert_status"
    /\ \E ok \in WriteOutcomes :
         /\ status' = IF ok
                      THEN [status EXCEPT ![cur[t].device_id] = AlertStatusRow(@, cur[t].alert_data)]
                      ELSE status
         /\ statusWrites' =
               IF ok
               THEN Append(statusWrites,
                           [id |-> cur[t].id, device_id |-> cur[t].device_id, op |-> "set"])
               ELSE statusWrites
         /\ faults' = IF ok THEN faults ELSE faults - 1
         /\ trace' = Append(trace, Ev(cur[t].id, "set_status", ok))
         /\ cur' = [cur EXCEPT ![t].alert_ret = SaveAlertReturn(Len(alerts), ok)]
    /\ pc' = [pc EXCEPT ![t] = "idle"]
    /\ UNCHANGED <<apiVars, universe, budget, model, readings, alerts, conn>>

Next ==
    \E t \in LoopThreads :
        \/ OnMessage(t)
        \/ SaveDeviceData(t)
        \/ UpdateDeviceStatus(t)
        \/ SaveAlertPush(t)
        \/ SaveAlertStatus(t)

Spec == Init /\ [][Next]_vars

SpecFn == InitFn /\ [][Next]_vars

SpecFail == InitFail /\ [][Next]_vars

----------------------------------------------------------------------------
(* Actions of the connection life cycle.  The callbacks run on the         *)
(* network-loop thread, between two messages; stop_mqtt_client runs on the *)
(* main thread.                                                            *)

LoopIdle == \A t \in LoopThreads : pc[t] = "idle"

pipeVars == <<universe, budget, model, pc, cur, readings, status, alerts,
              statusWrites, faults, trace, apiVars>>

\* start_mqtt_client: connect() (TCP connect, CONNECT sent) and loop_start();
\* an exception of connect() returns False and no loop is started.
StartMqttClient ==
    /\ conn.main = "start"
    /\ \E ok \in BOOLEAN :
         conn' = IF ok
                 THEN [conn EXCEPT !.session = "connecting", !.loop = "running",
                                   !.main = "serving"]
                 ELSE [conn EXCEPT !.main = "serving"]
    /\ UNCHANGED pipeVars

\* CONNACK received: the loop calls on_connect with the result code.
ConnAck ==
    /\ conn.loop = "running"
    /\ LoopIdle
    /\ conn.session = "connecting"
    /\ \E rc \in {0, 5} :
         conn' = OnConnect([conn EXCEPT !.session = IF rc = 0 THEN "connected" ELSE "refused",
                                        !.acks = IF rc = 0 THEN @ + 1 ELSE @],
                           rc)
    /\ UNCHANGED pipeVars

\* Transport failure seen by the loop: on_disconnect with a non-zero code.
\* The subscriptions of the (clean) session are gone with it.
ConnectionLost ==
    /\ conn.loop = "running"
    /\ LoopIdle
    /\ conn.session \in {"connecting", "connected", "refused"}
    /\ conn.losses < MaxLosses
    /\ conn' = OnDisconnect([conn EXCEPT !.session = "lost", !.subscribed = FALSE,
                                         !.losses = @ + 1],
                            1)
    /\ UNCHANGED pipeVars

\* The running loop (loop_start -> loop_forever) reconnects after a loss.
Reconnect ==
    /\ conn.loop = "running"
    /\ LoopIdle
    /\ conn.session = "lost"
    /\ conn' = [conn EXCEPT !.session = "connecting"]
    /\ UNCHANGED pipeVars

\* stop_mqtt_client, first call: loop_stop() joins the loop thread, which
\* ends after the callback in progress.
StopLoop ==
    /\ conn.main = "serving"
    /\ LoopIdle
    /\ conn' = [conn EXCEPT !.loop = IF @ = "running" THEN "stopped" ELSE @,
                            !.main = "disconnecting"]
    /\ UNCHANGED pipeVars

\* stop_mqtt_client, second call: disconnect() sends DISCONNECT on an open
\* session, which calls on_disconnect(rc = 0); without a session it does
\* nothing.  No unsubscribe is issued anywhere.
StopDisconnect ==
    /\ conn.main = "disconnecting"
    /\ conn' = IF conn.session \in {"connecting", "connected", "refused"}
               THEN OnDisconnect([conn EXCEPT !.session = "closed", !.subscribed = FALSE,
                                              !.main = "stopped"],
                                 0)
               ELSE [conn EXCEPT !.main = "stopped"]
    /\ UNCHANGED pipeVars

NextConn ==
    \/ StartMqttClient
    \/ ConnAck
    \/ ConnectionLost
    \/ Reconnect
    \/ StopLoop
    \/ StopDisconnect
    \/ \E t \in LoopThreads :
          \/ OnMessage(t)
          \/ SaveDeviceData(t)
          \/ UpdateDeviceStatus(t)
          \/ SaveAlertPush(t)
          \/ SaveAlertStatus(t)

SpecConn == InitConn /\ [][NextConn]_vars

\* The network loop keeps running (no stop_mqtt_client) and is scheduled
\* fairly.
NextLive ==
    \/ StartMqttClient
    \/ ConnAck
    \/ ConnectionLost
    \/ Reconnect
    \/ \E t \in LoopThreads :
          \/ OnMessage(t)
          \/ SaveDeviceData(t)
          \/ UpdateDeviceStatus(t)
          \/ SaveAlertPush(t)
          \/ SaveAlertStatus(t)

SpecConnLive ==
    /\ InitConn
    /\ [][NextLive]_vars
    /\ WF_vars(Reconnect)
    /\ \A t \in LoopThreads :
          WF_vars(SaveDeviceData(t) \/ UpdateDeviceStatus(t)
                  \/ SaveAlertPush(t) \/ SaveAlertStatus(t))

----------------------------------------------------------------------------
(* app.py acknowledge_alert, running on an API request thread while the    *)
(* pipeline runs on the network-loop thread.                               *)

AckInputs ==
    { Input(TopicPir, "object", [pir_motion |-> 0], ClfNormal),
      Input(TopicPir, "object", [pir_motion |-> 1], ClfNormal),
      Input(TopicGas, "object", [gas_value |-> 800], ClfNormal) }

InitAck ==
    /\ InitCommon
    /\ fb = FbReady
    /\ universe = AckInputs
    /\ budget = MaxAckMsgs
    /\ faults = 0
    /\ conn = ConnServing

\* alert_ref.update({...}): the children written by the request.
AckUpdate(now) == [acknowledged |-> TRUE, acknowledged_at |-> now]

\* One answered request: whether the id names a pushed alert, the key (0
\* for an unknown id), the HTTP status code, and what the request found and
\* did at /alerts/{id}.
Answer(known, n, code, old, new) ==
    [known |-> known, n |-> n, code |-> code,
     was_acknowledged |-> Get(old, "acknowledged", FALSE),
     changed |-> new # old]

\* The node after the request.
Acknowledged(old, now, written) == IF written THEN Merge(old, AckUpdate(now)) ELSE old

\* acknowledge_alert(alert_id): db.reference(path) is returned for any path,
\* Reference.update writes the children whether or not the node exists; the
\* else branch answers 404 when no reference is returned; an exception of
\* update answers 500.
AcknowledgeAlert ==
    /\ Len(ackLog) < MaxAcks
    /\ \E now \in Times, ok \in WriteOutcomes :
         \/ \E k \in DOMAIN alerts :
              /\ alerts' = [alerts EXCEPT ![k] = Acknowledged(@, now, fb.app /\ ok)]
              /\ ackLog' = Append(ackLog,
                                  Answer(TRUE, k,
                                         IF ~fb.app THEN 404 ELSE IF ok THEN 200 ELSE 500,
                                         alerts[k], Acknowledged(alerts[k], now, fb.app /\ ok)))
              /\ faults' = IF fb.app /\ ~ok THEN faults - 1 ELSE faults
              /\ UNCHANGED orphans
         \/ \E u \in UnknownIds :
              /\ orphans' = [orphans EXCEPT ![u] = Acknowledged(@, now, fb.app /\ ok)]
              /\ ackLog' = Append(ackLog,
                                  Answer(FALSE, 0,
                                         IF ~fb.app THEN 404 ELSE IF ok THEN 200 ELSE 500,
                                         orphans[u], Acknowledged(orphans[u], now, fb.app /\ ok)))
              /\ faults' = IF fb.app /\ ~ok THEN faults - 1 ELSE faults
              /\ UNCHANGED alerts
    /\ UNCHANGED <<universe, budget, model, pc, cur, readings, status, statusWrites,
                   trace, conn, fb>>

NextAck ==
    \/ \E t \in LoopThreads :
          \/ OnMessage(t)
          \/ SaveDeviceData(t)
          \/ UpdateDeviceStatus(t)
          \/ SaveAlertPush(t)
          \/ SaveAlertStatus(t)
    \/ AcknowledgeAlert

SpecAck == InitAck /\ [][NextAck]_vars

----------------------------------------------------------------------------
(* firebase_config initialize_firebase / get_database_reference called     *)
(* from the network-loop thread and the API request threads.  A thread     *)
(* switch may happen between any two of the reads and writes below.        *)

InitFb ==
    /\ InitCommon
    /\ fb \in {FbReady, FbDown}
    /\ universe = ConnInputs
    /\ budget = 0
    /\ faults = 0
    /\ conn = ConnServing

fbFrame == <<universe, budget, model, pc, cur, readings, status, alerts, statusWrites,
             faults, trace, conn, orphans, ackLog>>

\* What the caller finds when its call begins.
FbSeen == IF fb.app THEN "app_set" ELSE IF fb.sdk THEN "sdk_only" ELSE "nothing"

\* The call of thread c returns: a reference / True, or None / False.
FbReturn(c, ref) ==
    [fb EXCEPT !.tpc[c] = "idle",
               !.log = Append(@, [caller |-> c, began |-> fb.began[c], ref |-> ref])]

\* A call begins.  get_database_reference reads _firebase_app and returns
\* db.reference(path) when it is set; otherwise, and for a direct call,
\* initialize_firebase is entered.
FbBegin(c) ==
    /\ fb.tpc[c] = "idle"
    /\ fb.calls < MaxFbCalls
    /\ \E fn \in {"get_database_reference", "initialize_firebase"} :
         LET b == [fb EXCEPT !.calls = @ + 1, !.began[c] = FbSeen]
         IN  fb' = IF fn = "get_database_reference" /\ fb.app
                   THEN [b EXCEPT !.log = Append(@, [caller |-> c, began |-> FbSeen,
                                                     ref |-> TRUE])]
                   ELSE [b EXCEPT !.tpc[c] = "init_enter"]
    /\ UNCHANGED fbFrame

\* initialize_firebase: "if _firebase_app is not None: return True", then
\* os.path.exists and credentials.Certificate, which the environment may
\* make fail (return False) as long as no attempt has got past them.
FbInitEnter(c) ==
    /\ fb.tpc[c] = "init_enter"
    /\ \/ /\ fb.app
          /\ fb' = FbReturn(c, TRUE)
       \/ /\ ~fb.app
          /\ fb' = [fb EXCEPT !.tpc[c] = "init_app"]
       \/ /\ ~fb.app
          /\ ~fb.sdk
          /\ fb.fails > 0
          /\ fb' = [FbReturn(c, FALSE) EXCEPT !.fails = @ - 1]
    /\ UNCHANGED fbFrame

\* firebase_admin.initialize_app: registers the default app, or raises
\* ValueError when it exists; the except clause returns False.
FbInitApp(c) ==
    /\ fb.tpc[c] = "init_app"
    /\ \/ /\ fb.sdk
          /\ fb' = FbReturn(c, FALSE)
       \/ /\ ~fb.sdk
          /\ fb' = [fb EXCEPT !.sdk = TRUE, !.inits = @ + 1, !.tpc[c] = "assign"]
    /\ UNCHANGED fbFrame

\* "_firebase_app = ..." and return True.
FbAssign(c) ==
    /\ fb.tpc[c] = "assign"
    /\ fb' = [FbReturn(c, TRUE) EXCEPT !.app = TRUE]
    /\ UNCHANGED fbFrame

NextFb ==
    \E c \in FbThreads :
        \/ FbBegin(c)
        \/ FbInitEnter(c)
        \/ FbInitApp(c)
        \/ FbAssign(c)

SpecFb == InitFb /\ [][NextFb]_vars

----------------------------------------------------------------------------
(* Helpers for the properties *)

Idle == \A t \in LoopThreads : pc[t] = "idle"

Last(seq) == seq[Len(seq)]

Has(row, key) == key \in DOMAIN row

StateOf(is_anomaly) == IF is_anomaly THEN "threat" ELSE "normal"

\* The finished message of thread t (cur is kept until the next message).
Finished(t) == pc[t] = "idle" /\ cur[t] # NoMsg

AnomalousReadings ==
    UNION { { <<d, i>> : i \in { j \in DOMAIN readings[d] : readings[d][j].is_anomaly } } :
            d \in Devices }

\* Readings appended whose alert push is still to come.
AlertPending ==
    { t \in LoopThreads : /\ pc[t] \in {"update_device_status", "save_alert_push"}
                          /\ cur[t].is_anomaly }

\* The reasons of a verdict: detect_anomaly's list for the environmental
\* branch; for pir and gas the fixed/templated message of the alert.
VerdictReasons(c) ==
    IF c.branch = "env" THEN c.reasons
    ELSE IF c.alert_data # NoAlert THEN <<c.alert_data.message>>
    ELSE <<>>

MeasuredGas(data) ==
    IF Has(data, "gas_value") THEN data.gas_value
    ELSE IF Has(data, "gas_level") THEN data.gas_level
    ELSE 0

----------------------------------------------------------------------------
(* C1: whenever no message is in progress, every device with at least one  *)
(* processed reading has state "threat" if its most recently processed     *)
(* reading was anomalous and "normal" otherwise (no hysteresis).           *)
C1_StateFollowsLastVerdict ==
    Idle => \A d \in Devices :
                readings[d] # <<>> =>
                    /\ Has(status[d], "state")
                    /\ status[d].state = StateOf(Last(readings[d]).is_anomaly)

\* A normal reading directly after an anomalous one has set "normal".
C1_Witness ==
    /\ Idle
    /\ \E d \in Devices :
         /\ Len(readings[d]) >= 2
         /\ readings[d][Len(readings[d]) - 1].is_anomaly
         /\ ~Last(readings[d]).is_anomaly
         /\ status[d].state = "normal"

(* C2: when on_message has finished a decoded reading, the status row of   *)
(* its device holds last_seen = the reading's timestamp, and the sensor    *)
(* kind written by the status update is still there.                       *)
C2_LastSeenKept ==
    \A t \in LoopThreads :
        Finished(t) =>
            LET row == status[cur[t].device_id]
            IN  /\ Has(row, "last_seen")
                /\ row.last_seen = cur[t].timestamp
                /\ Has(row, "sensor_type")

(* C3: per device, the last_seen values written to the status row never    *)
(* decrease: a later write never stores an earlier value than a former.    *)
C3_LastSeenMonotone ==
    \A i, j \in DOMAIN statusWrites :
        ( /\ i < j
          /\ statusWrites[i].op = "update"
          /\ statusWrites[j].op = "update"
          /\ statusWrites[i].device_id = statusWrites[j].device_id )
        => statusWrites[i].last_seen <= statusWrites[j].last_seen

(* C4: once the readings of a device, bearing strictly increasing          *)
(* timestamps, are all processed, its status has last_seen = the maximum   *)
(* timestamp and state = the verdict of the reading bearing it.            *)
C4_FinalStatusIsNewest ==
    Idle => \A d \in Devices :
                ( /\ readings[d] # <<>>
                  /\ \A i, j \in DOMAIN readings[d] :
                        i < j => readings[d][i].timestamp < readings[d][j].timestamp )
                => /\ Has(status[d], "last_seen")
                   /\ status[d].last_seen = Last(readings[d]).timestamp
                   /\ status[d].state = StateOf(Last(readings[d]).is_anomaly)

(* C5: the status writes of one reading are never interleaved with the     *)
(* status writes of another reading of the same device: between two status *)
(* writes of a reading no other reading writes that device's row, and no   *)
(* two handlers are in progress on the same device.                        *)
C5_SameDeviceSerialized ==
    /\ \A i, j, k \in DOMAIN statusWrites :
          ( /\ i < j /\ j < k
            /\ statusWrites[i].id = statusWrites[k].id
            /\ statusWrites[j].device_id = statusWrites[i].device_id )
          => statusWrites[j].id = statusWrites[i].id
    /\ \A t1, t2 \in LoopThreads :
          ( /\ t1 # t2
            /\ pc[t1] # "idle" /\ pc[t2] # "idle" )
          => cur[t1].device_id # cur[t2].device_id

\* A reading wrote the row twice (update, then set) and a later reading of
\* the same device wrote it after both.
C5_Witness ==
    \E i, j, k \in DOMAIN statusWrites :
        /\ i < j /\ j < k
        /\ statusWrites[i].id = statusWrites[j].id
        /\ statusWrites[i].op = "update" /\ statusWrites[j].op = "set"
        /\ statusWrites[k].id # statusWrites[i].id
        /\ statusWrites[k].device_id = statusWrites[i].device_id

(* C6: when a replayed reading (identical to one already stored for the    *)
(* device) whose timestamp is not newer than the stored last_seen has been *)
(* processed, last_seen is not older and state not different than before.  *)
C6_ReplayDoesNotRegress ==
    \A t \in LoopThreads :
        ( /\ Finished(t)
          /\ cur[t].replay
          /\ Has(cur[t].before, "last_seen")
          /\ cur[t].timestamp <= cur[t].before.last_seen )
        => LET row == status[cur[t].device_id]
           IN  /\ Has(row, "last_seen")
               /\ row.last_seen >= cur[t].before.last_seen
               /\ row.state = cur[t].before.state

(* C7: every processed reading hands exactly one alert to /alerts if its   *)
(* verdict is anomalous and none otherwise: the alerts pushed are as many  *)
(* as the anomalous readings stored, less those whose push is still to     *)
(* come, and every alert is the alert of an anomalous stored reading.      *)
C7_OneAlertIffAnomalous ==
    /\ Len(alerts) = Cardinality(AnomalousReadings) - Cardinality(AlertPending)
    /\ \A k \in DOMAIN alerts :
          \E i \in DOMAIN readings[alerts[k].device_id] :
              /\ readings[alerts[k].device_id][i].is_anomaly
              /\ readings[alerts[k].device_id][i].timestamp = alerts[k].timestamp

\* Anomalous and normal readings of several kinds were processed.
C7_Witness ==
    /\ Idle
    /\ Len(alerts) = 2
    /\ \E d \in Devices : readings[d] # <<>> /\ ~Last(readings[d]).is_anomaly
    /\ \E k \in DOMAIN alerts : alerts[k].type = "anomaly"

(* C8: a reading handled as pir is anomalous exactly when its raw          *)
(* pir_motion is 0; raw 0 yields state "threat", any other raw value       *)
(* yields state "normal".                                                  *)
C8_PirRule ==
    \A t \in LoopThreads :
        ( /\ cur[t] # NoMsg
          /\ cur[t].branch = "pir"
          /\ Has(cur[t].data, "pir_motion") )
        => /\ cur[t].is_anomaly = (cur[t].data.pir_motion = 0)
           /\ cur[t].reading_data.is_anomaly = (cur[t].data.pir_motion = 0)
           /\ Finished(t) =>
                 status[cur[t].device_id].state = StateOf(cur[t].data.pir_motion = 0)

\* A pir reading with a raw value other than 0 and 1 ended "normal".
C8_Witness ==
    \E t \in LoopThreads :
        /\ Finished(t)
        /\ cur[t].branch = "pir"
        /\ Has(cur[t].data, "pir_motion")
        /\ cur[t].data.pir_motion = 2
        /\ status[cur[t].device_id].state = "normal"

\* A pir reading with raw value 0 ended "threat".
C8_WitnessMotion ==
    \E t \in LoopThreads :
        /\ Finished(t)
        /\ cur[t].branch = "pir"
        /\ Has(cur[t].data, "pir_motion")
        /\ cur[t].data.pir_motion = 0
        /\ status[cur[t].device_id].state = "threat"

(* C9: a reading handled as gas is anomalous exactly when the measured     *)
(* value is > 500 (500 itself is normal); the measured value is gas_value  *)
(* if present, otherwise gas_level if present, otherwise 0.                *)
C9_GasRule ==
    \A t \in LoopThreads :
        ( /\ cur[t] # NoMsg
          /\ cur[t].branch = "gas" )
        => /\ cur[t].is_anomaly = (MeasuredGas(cur[t].data) > 500)
           /\ cur[t].reading_data.gas_value = MeasuredGas(cur[t].data)
           /\ Finished(t) =>
                 status[cur[t].device_id].state = StateOf(MeasuredGas(cur[t].data) > 500)

\* A gas reading of exactly 500 ended "normal".
C9_Witness ==
    \E t \in LoopThreads :
        /\ Finished(t)
        /\ cur[t].branch = "gas"
        /\ Has(cur[t].data, "gas_value")
        /\ cur[t].data.gas_value = 500
        /\ status[cur[t].device_id].state = "normal"

\* A gas reading given only through the gas_level alias ended "threat".
C9_WitnessAlias ==
    \E t \in LoopThreads :
        /\ Finished(t)
        /\ cur[t].branch = "gas"
        /\ ~Has(cur[t].data, "gas_value")
        /\ Has(cur[t].data, "gas_level")
        /\ status[cur[t].device_id].state = "threat"

(* C10: for every reading of every kind, the reasons of its verdict are    *)
(* non-empty exactly when the verdict is anomalous.                        *)
C10_ReasonsIffAnomaly ==
    \A t \in LoopThreads :
        cur[t] # NoMsg => ((VerdictReasons(cur[t]) # <<>>) = cur[t].is_anomaly)

\* An environmental reading inside all bounds was labelled anomalous.
C10_Witness ==
    \E t \in LoopThreads :
        /\ cur[t] # NoMsg
        /\ cur[t].branch = "env"
        /\ cur[t].is_anomaly
        /\ cur[t].reasons = <<"Unusual sensor pattern detected">>

----------------------------------------------------------------------------
(* Helpers over the history of steps *)

Steps(id, step) == { i \in DOMAIN trace : trace[i].id = id /\ trace[i].step = step }

OkSteps(step) == { i \in DOMAIN trace : trace[i].step = step /\ trace[i].ok }

WriteSteps == {"append_reading", "update_status", "push_alert", "set_status"}

TotalReadings ==
    Cardinality(UNION { { <<d, i>> : i \in DOMAIN readings[d] } : d \in Devices })

\* The datastore holds what the successful writes of the history put there.
StoreMatchesTrace ==
    /\ TotalReadings = Cardinality(OkSteps("append_reading"))
    /\ Len(alerts) = Cardinality(OkSteps("push_alert"))
    /\ Len(statusWrites) = Cardinality(OkSteps("update_status"))
                           + Cardinality(OkSteps("set_status"))

NoThreadCrashed == \A t \in LoopThreads : pc[t] # "crashed"

\* Message id is no longer in progress.
Completed(id) == id < NextId - 1 \/ Idle

----------------------------------------------------------------------------
(* C11: a message whose payload is not parseable JSON is dropped without   *)
(* an exception leaving on_message: decoding fails, no later step and no   *)
(* datastore write belongs to it, and the store holds exactly what the     *)
(* writes of the other messages put there.                                 *)
C11_MalformedDropped ==
    /\ NoThreadCrashed
    /\ StoreMatchesTrace
    /\ \A i \in DOMAIN trace :
          (trace[i].step = "decode" /\ trace[i].json = "malformed")
          => /\ ~trace[i].ok
             /\ \A j \in DOMAIN trace : trace[j].id = trace[i].id => j = i

\* A malformed message was dropped between two stored readings.
C11_Witness ==
    /\ Idle
    /\ \E i, j, k \in DOMAIN trace :
          /\ i < j /\ j < k
          /\ trace[i].step = "append_reading" /\ trace[i].ok
          /\ trace[j].step = "decode" /\ trace[j].json = "malformed"
          /\ trace[k].step = "append_reading" /\ trace[k].ok

(* C12: no failure of per-message processing (malformed JSON, undecodable  *)
(* bytes, a JSON payload that is not an object, a classifier error, a      *)
(* failing datastore write) ends the network-loop thread, and every valid  *)
(* message, also after failing ones, is decoded, classified and its        *)
(* reading and status writes are issued.                                   *)
C12_NoFailureEscapes ==
    /\ NoThreadCrashed
    /\ StoreMatchesTrace
    /\ \A i \in DOMAIN trace :
          ( /\ trace[i].step = "decode"
            /\ trace[i].json = "object"
            /\ Completed(trace[i].id) )
          => /\ trace[i].ok
             /\ \E j \in Steps(trace[i].id, "detect") : trace[j].ok
             /\ Steps(trace[i].id, "append_reading") # {}
             /\ Steps(trace[i].id, "update_status") # {}

\* After an undecodable or non-object payload and after a failed datastore
\* write, a later message was stored.
C12_Witness ==
    \E i, j, k \in DOMAIN trace :
        /\ i < k /\ j < k
        /\ trace[i].step = "decode" /\ trace[i].json \in {"undecodable", "non_object"}
        /\ trace[j].step \in WriteSteps /\ ~trace[j].ok
        /\ trace[k].id > trace[i].id /\ trace[k].id > trace[j].id
        /\ trace[k].step = "append_reading" /\ trace[k].ok

(* C13: while the model is not loaded, every environmental reading is      *)
(* classified not anomalous with no reasons, sets state "normal", produces *)
(* no alert, and is still ingested (reading appended, status updated).     *)
C13_FailOpenWhenNotLoaded ==
    model = "none" =>
        /\ \A i \in DOMAIN trace : trace[i].step = "detect" => trace[i].ok
        /\ \A k \in DOMAIN alerts : alerts[k].type # "anomaly"
        /\ \A t \in LoopThreads :
              (cur[t] # NoMsg /\ cur[t].branch = "env")
              => /\ ~cur[t].is_anomaly
                 /\ cur[t].reasons = <<>>
                 /\ cur[t].alert_data = NoAlert
                 /\ Finished(t) =>
                       /\ Last(readings[cur[t].device_id]) = cur[t].reading_data
                       /\ ~cur[t].reading_data.is_anomaly
                       /\ status[cur[t].device_id].state = "normal"
                       /\ status[cur[t].device_id].last_seen = cur[t].timestamp

\* An out-of-bounds reading the classifier would flag ended "normal".
C13_Witness ==
    /\ model = "none"
    /\ \E t \in LoopThreads :
          /\ Finished(t)
          /\ cur[t].branch = "env"
          /\ cur[t].clf = ClfHigh
          /\ cur[t].data = [temperature |-> 9, humidity |-> 19, gas_level |-> 501]
          /\ status[cur[t].device_id].state = "normal"
          /\ alerts = <<>>

(* C14: when the scaler or the classifier raises while scoring, the        *)
(* verdict is (not anomalous, no reasons) and the reading is processed as  *)
(* normal (stored, state "normal", no alert), never dropped.               *)
C14_ScoringFailureIsNormal ==
    /\ \A i \in DOMAIN trace : trace[i].step = "detect" => trace[i].ok
    /\ \A t \in LoopThreads :
          (cur[t] # NoMsg /\ cur[t].branch = "env" /\ model = "loaded" /\ cur[t].clf.raises)
          => /\ ~cur[t].is_anomaly
             /\ cur[t].reasons = <<>>
             /\ cur[t].alert_data = NoAlert
             /\ Finished(t) =>
                   /\ Last(readings[cur[t].device_id]) = cur[t].reading_data
                   /\ status[cur[t].device_id].state = "normal"
                   /\ alerts = <<>>

\* A reading whose scoring raised was stored as normal.
C14_Witness ==
    /\ model = "loaded"
    /\ \E t \in LoopThreads :
          /\ Finished(t)
          /\ cur[t].branch = "env"
          /\ cur[t].clf.raises
          /\ readings[cur[t].device_id] # <<>>
          /\ status[cur[t].device_id].state = "normal"

(* C15: when save_alert's push to /alerts succeeded and its write to       *)
(* /devices/{id}/status failed, the alert stays persisted and save_alert   *)
(* returns the generated alert key.                                        *)
C15_SecondaryFailureKeepsSuccess ==
    \A t \in LoopThreads :
        ( /\ Finished(t)
          /\ \E i \in Steps(cur[t].id, "push_alert") : trace[i].ok
          /\ \E i \in Steps(cur[t].id, "set_status") : ~trace[i].ok )
        => /\ alerts # <<>>
           /\ Last(alerts) = cur[t].alert_data
           /\ cur[t].alert_ret = Len(alerts)

(* C16: a step of the processing of a reading for device d changes only    *)
(* d's readings, d's status row and the alerts; readings and status row of *)
(* every other device stay as they are.                                    *)
C16_OtherDevicesUnchanged ==
    [][ \A d \in Devices :
          (readings'[d] # readings[d] \/ status'[d] # status[d])
          => \E t \in LoopThreads :
                 /\ pc[t] \notin {"idle", "crashed"}
                 /\ cur[t].device_id = d ]_vars

\* Two devices hold readings and status rows of their own.
C16_Witness ==
    /\ Idle
    /\ readings["pir_test"] # <<>> /\ readings["gas_test"] # <<>>
    /\ status["pir_test"].state = "normal"
    /\ status["gas_test"].state = "threat"
    /\ status["sensors_dev1"] = EmptyRow

(* C17: every CONNACK with result code 0 (first connect and reconnects)    *)
(* issues the subscription again and sets the status connected; a CONNACK  *)
(* with a non-zero code leaves the status disconnected and subscribes      *)
(* nothing.                                                                *)
C17_SubscribeOnEveryConnect ==
    /\ conn.subs = conn.acks
    /\ conn.session = "connected" => (MqttStatusConnected /\ conn.subscribed)
    /\ conn.session = "refused" => (~MqttStatusConnected /\ ~conn.subscribed)

\* Connected again after a loss, subscribed again.
C17_Witness ==
    /\ conn.session = "connected"
    /\ conn.acks = 2
    /\ conn.subs = 2
    /\ conn.losses >= 1
    /\ conn.subscribed

\* A refused handshake.
C17_WitnessRefused ==
    /\ conn.session = "refused"
    /\ ~MqttStatusConnected

(* C18: the status is connected only between a successful handshake and    *)
(* the next disconnect event and is entered from connecting only; every    *)
(* transport failure sets it disconnected; after an unexpected loss the    *)
(* running network loop eventually attempts a reconnect.                   *)
C18_Lifecycle ==
    /\ [](MqttStatusConnected <=> conn.session = "connected")
    /\ [][ (MqttStatusConnected' /\ ~MqttStatusConnected)
           => (conn.session = "connecting" /\ conn'.session = "connected") ]_vars
    /\ (conn.session = "lost") ~> (conn.session = "connecting")

\* Lost once and connected again.
C18_Witness ==
    /\ conn.losses >= 1
    /\ conn.session = "connected"
    /\ MqttStatusConnected

(* C19: when stop_mqtt_client has completed, the session was closed by     *)
(* unsubscribing and disconnecting, no message is in progress and the      *)
(* status is disconnected.                                                 *)
C19_CleanShutdown ==
    conn.main = "stopped" =>
        /\ Idle
        /\ ~MqttStatusConnected
        /\ conn.session \in {"closed", "lost", "none"}
        /\ (conn.subs > 0 => conn.unsubs > 0)

(* C20: the steps of a message are issued in the order decode, detect,     *)
(* reading append, status update, alert: the status update of a reading    *)
(* precedes its alert push, and no datastore write precedes the successful *)
(* decoding of its payload.                                                *)
C20_StepOrder ==
    \A j \in DOMAIN trace :
        /\ trace[j].step = "push_alert" =>
              \E i \in Steps(trace[j].id, "update_status") : i < j
        /\ trace[j].step = "update_status" =>
              \E i \in Steps(trace[j].id, "append_reading") : i < j
        /\ trace[j].step \in WriteSteps =>
              /\ \E i \in Steps(trace[j].id, "decode") : i < j /\ trace[i].ok
              /\ \E i \in Steps(trace[j].id, "detect") : i < j /\ trace[i].ok
        /\ trace[j].step = "detect" =>
              \E i \in Steps(trace[j].id, "decode") : i < j /\ trace[i].ok

\* An anomalous reading went through all four writes; a later message was
\* dropped at decoding.
C20_Witness ==
    \E i, j, k, l, m \in DOMAIN trace :
        /\ i < j /\ j < k /\ k < l /\ l < m
        /\ trace[i].step = "append_reading"
        /\ trace[j].step = "update_status" /\ trace[j].id = trace[i].id
        /\ trace[k].step = "push_alert" /\ trace[k].id = trace[i].id
        /\ trace[l].step = "set_status" /\ trace[l].id = trace[i].id
        /\ trace[m].step = "decode" /\ ~trace[m].ok

----------------------------------------------------------------------------
\* The sensor-kind token of a topic, as the claims name it.
TopicToken(p) == IF Len(p) >= 2 THEN p[2] ELSE "unknown"

(* C21: device_id depends on the topic only: segment 1, "_", segment 2 for *)
(* three or more segments; segment 1, "_default" for two segments;         *)
(* "unknown_device" with sensor kind "unknown" for one segment.  The       *)
(* reading is stored under that device_id and under no other.              *)
C21_DeviceIdFromTopic ==
    \A t \in LoopThreads :
        cur[t] # NoMsg =>
            LET p == cur[t].topic
                d == cur[t].device_id
            IN  /\ Len(p) >= 3 => d = p[2] \o "_" \o p[3]
                /\ Len(p) = 2 => d = p[2] \o "_default"
                /\ Len(p) < 2 =>
                      /\ d = "unknown_device"
                      /\ cur[t].branch = "env" => cur[t].reading_data.sensor_type = "unknown"
                /\ Finished(t) =>
                      /\ readings[d] = <<cur[t].reading_data>>
                      /\ \A e \in Devices \ {d} : readings[e] = <<>> /\ status[e] = EmptyRow

\* x/pir/sensor1/raw was stored under pir_sensor1.
C21_Witness ==
    \E t \in LoopThreads :
        /\ Finished(t)
        /\ cur[t].topic = <<"x", "pir", "sensor1", "raw">>
        /\ Len(readings["pir_sensor1"]) = 1

\* A one-segment topic was stored under unknown_device with kind unknown.
C21_WitnessUnknown ==
    \E t \in LoopThreads :
        /\ Finished(t)
        /\ cur[t].topic = <<"iot-cybot">>
        /\ cur[t].branch = "env"
        /\ Len(readings["unknown_device"]) = 1
        /\ readings["unknown_device"][1].sensor_type = "unknown"

(* C22: a reading whose topic token is "pir" or "gas" is handled as that   *)
(* kind whatever its payload holds; the payload fields decide (pir_motion: *)
(* pir, gas_value: gas, otherwise environmental) only when the token names *)
(* neither.                                                                *)
C22_TopicTokenFirst ==
    \A t \in LoopThreads :
        cur[t] # NoMsg =>
            LET tok == TopicToken(cur[t].topic)
            IN  /\ tok = "pir" => cur[t].branch = "pir"
                /\ tok = "gas" => cur[t].branch = "gas"
                /\ tok \notin {"pir", "gas"} =>
                      cur[t].branch = IF Has(cur[t].data, "pir_motion") THEN "pir"
                                      ELSE IF Has(cur[t].data, "gas_value") THEN "gas"
                                      ELSE "env"

(* C23: an alert has type "motion" for a reading handled as pir, "gas" for *)
(* one handled as gas, "anomaly" otherwise; severity is "high" for motion  *)
(* and gas, and for anomaly "high" exactly when score < -0.5, "medium"     *)
(* otherwise (score -0.5 gives "medium").                                  *)
C23_AlertTypeAndSeverity ==
    \A t \in LoopThreads :
        (cur[t] # NoMsg /\ cur[t].alert_data # NoAlert) =>
            LET a == cur[t].alert_data
            IN  /\ cur[t].branch = "pir" => (a.type = "motion" /\ a.severity = "high")
                /\ cur[t].branch = "gas" => (a.type = "gas" /\ a.severity = "high")
                /\ cur[t].branch = "env" =>
                      /\ a.type = "anomaly"
                      /\ a.anomaly_score = cur[t].clf.score
                      /\ (a.severity = "high") = (cur[t].clf.score < -5)
                      /\ (a.severity = "medium") = (cur[t].clf.score >= -5)
                /\ Finished(t) => (alerts # <<>> /\ Last(alerts) = a)

\* An anomaly alert with score exactly -0.5 was stored with severity medium.
C23_Witness ==
    \E t \in LoopThreads :
        /\ Finished(t)
        /\ cur[t].branch = "env"
        /\ cur[t].clf.score = -5
        /\ alerts # <<>>
        /\ Last(alerts).type = "anomaly"
        /\ Last(alerts).severity = "medium"

(* C24: a gas alert's message ends with the measured gas value; an anomaly *)
(* alert's message is the reasons of the verdict joined in order with      *)
(* " | ", or "Anomaly detected" when there are no reasons.                 *)
C24_AlertMessages ==
    \A k \in DOMAIN alerts :
        LET a == alerts[k]
        IN  /\ a.type = "gas" =>
                  a.message = "High Gas Level Detected: " \o ToString(a.gas_level)
            /\ a.type = "anomaly" =>
                  LET r == a.reasons
                  IN  a.message =
                        IF r = <<>> THEN "Anomaly detected"
                        ELSE IF Len(r) = 1 THEN r[1]
                        ELSE IF Len(r) = 2 THEN r[1] \o " | " \o r[2]
                        ELSE r[1] \o " | " \o r[2] \o " | " \o r[3]
            /\ \A t \in LoopThreads :
                  (Finished(t) /\ cur[t].branch = "gas") =>
                      a.gas_level = MeasuredGas(cur[t].data)
            /\ \A t \in LoopThreads :
                  (Finished(t) /\ cur[t].branch = "env") => a.reasons = cur[t].reasons

\* An anomaly alert with three reasons was stored.
C24_Witness ==
    /\ alerts # <<>>
    /\ Last(alerts).type = "anomaly"
    /\ Last(alerts).message =
         "Abnormal temperature: 9C | Abnormal humidity: 19% | High gas level detected: 501"

\* {"gas_value": 800} gave an alert whose message holds 800.
C24_WitnessGas ==
    /\ alerts # <<>>
    /\ Last(alerts).type = "gas"
    /\ Last(alerts).message = "High Gas Level Detected: 800"

(* C25: every alert is pushed with acknowledged = false; the flag is set   *)
(* by acknowledge requests only and never returns to false; a request for  *)
(* an alert that is acknowledged already changes nothing of the alert.     *)
C25_AcknowledgedOnce ==
    /\ \A t \in LoopThreads :
          (cur[t] # NoMsg /\ cur[t].alert_data # NoAlert) => ~cur[t].alert_data.acknowledged
    /\ \A k \in DOMAIN alerts :
          alerts[k].acknowledged <=>
              \E i \in DOMAIN ackLog :
                  ackLog[i].known /\ ackLog[i].n = k /\ ackLog[i].code = 200
    /\ \A i \in DOMAIN ackLog :
          (ackLog[i].known /\ ackLog[i].was_acknowledged) => ~ackLog[i].changed

\* The part of C25 about the flag alone.
C25_FlagNeverCleared ==
    /\ \A t \in LoopThreads :
          (cur[t] # NoMsg /\ cur[t].alert_data # NoAlert) => ~cur[t].alert_data.acknowledged
    /\ \A k \in DOMAIN alerts :
          alerts[k].acknowledged <=>
              \E i \in DOMAIN ackLog :
                  ackLog[i].known /\ ackLog[i].n = k /\ ackLog[i].code = 200

(* C26: with the model loaded, an environmental reading is anomalous     *)
(* exactly when the classifier labels it -1, whatever its values; the      *)
(* reasons of an anomalous verdict are, in this order, a temperature       *)
(* reason iff temperature < 10 or > 40, a humidity reason iff humidity <   *)
(* 20 or > 80, a gas reason iff gas_level > 500, and the single generic    *)
(* reason iff none of the three applies.                                   *)
C26_LabelDecidesBoundsExplain ==
    \A t \in LoopThreads :
        (cur[t] # NoMsg /\ cur[t].branch = "env" /\ model = "loaded" /\ ~cur[t].clf.raises)
        => LET T == cur[t].reading_data.temperature
               H == cur[t].reading_data.humidity
               G == cur[t].reading_data.gas_level
               expected ==
                   (IF T < 10 \/ T > 40
                    THEN <<"Abnormal temperature: " \o ToString(T) \o "C">> ELSE <<>>)
                   \o (IF H < 20 \/ H > 80
                       THEN <<"Abnormal humidity: " \o ToString(H) \o "%">> ELSE <<>>)
                   \o (IF G > 500
                       THEN <<"High gas level detected: " \o ToString(G)>> ELSE <<>>)
           IN  /\ cur[t].is_anomaly = (cur[t].clf.prediction = -1)
               /\ cur[t].is_anomaly =>
                     cur[t].reasons = IF expected = <<>>
                                      THEN <<"Unusual sensor pattern detected">>
                                      ELSE expected
               /\ ~cur[t].is_anomaly => cur[t].reasons = <<>>

\* Values on the bounds, labelled anomalous: the generic reason alone.
C26_Witness ==
    \E t \in LoopThreads :
        /\ Finished(t)
        /\ model = "loaded"
        /\ cur[t].branch = "env"
        /\ cur[t].data = [temperature |-> 40, humidity |-> 80, gas_level |-> 500]
        /\ cur[t].is_anomaly
        /\ cur[t].reasons = <<"Unusual sensor pattern detected">>

\* Values outside every bound, labelled normal: not anomalous.
C26_WitnessNormal ==
    \E t \in LoopThreads :
        /\ Finished(t)
        /\ model = "loaded"
        /\ cur[t].branch = "env"
        /\ cur[t].data = [temperature |-> 9, humidity |-> 19, gas_level |-> 501]
        /\ ~cur[t].is_anomaly
        /\ status[cur[t].device_id].state = "normal"

(* C27: a message on a pir topic whose payload has no pir_motion field is  *)
(* processed with pir_motion = 0, that is as motion detected: the reading  *)
(* is stored, the state written is "threat" and one motion alert is        *)
(* pushed; nothing is raised or dropped.                                   *)
C27_MissingPirFieldIsMotion ==
    /\ \A i \in DOMAIN trace :
          (trace[i].step = "decode" /\ trace[i].ok) =>
              \E j \in Steps(trace[i].id, "detect") : trace[j].ok
    /\ \A t \in LoopThreads :
          ( /\ cur[t] # NoMsg
            /\ TopicToken(cur[t].topic) = "pir"
            /\ ~Has(cur[t].data, "pir_motion") )
          => /\ cur[t].branch = "pir"
             /\ cur[t].reading_data.pir_motion = 0
             /\ cur[t].reading_data.motion_detected
             /\ cur[t].status_update.state = "threat"
             /\ cur[t].alert_data # NoAlert
             /\ cur[t].alert_data.type = "motion"
             /\ Finished(t) =>
                   /\ readings[cur[t].device_id] = <<cur[t].reading_data>>
                   /\ status[cur[t].device_id].state = "threat"
                   /\ alerts = <<cur[t].alert_data>>

\* {} on iot-cybot/pir/test ended as a motion alert.
C27_Witness ==
    \E t \in LoopThreads :
        /\ Finished(t)
        /\ cur[t].topic = TopicPir
        /\ cur[t].data = EmptyRow
        /\ Len(alerts) = 1
        /\ alerts[1].type = "motion"
        /\ alerts[1].pir_motion = 0

(* C28: for each message every datastore write is attempted at most once;  *)
(* a failed reading append or status update does not stop the later steps: *)
(* a finished reading had its append and its status update attempted once  *)
(* each and, if anomalous, its alert push attempted once.                  *)
C28_NoRetryNoAbort ==
    /\ \A id \in 1..(NextId - 1) :
          \A st \in WriteSteps : Cardinality(Steps(id, st)) <= 1
    /\ \A t \in LoopThreads :
          Finished(t) =>
              /\ Cardinality(Steps(cur[t].id, "append_reading")) = 1
              /\ Cardinality(Steps(cur[t].id, "update_status")) = 1
              /\ Cardinality(Steps(cur[t].id, "push_alert"))
                   = IF cur[t].is_anomaly THEN 1 ELSE 0

\* Append and status update of a reading failed, its alert was pushed.
C28_Witness ==
    \E t \in LoopThreads :
        /\ Finished(t)
        /\ \E i \in Steps(cur[t].id, "append_reading") : ~trace[i].ok
        /\ \E i \in Steps(cur[t].id, "update_status") : ~trace[i].ok
        /\ \E i \in Steps(cur[t].id, "push_alert") : trace[i].ok
        /\ readings[cur[t].device_id] = <<>>
        /\ alerts # <<>>

(* C29: an acknowledge request for an id that no push generated answers   *)
(* 404 and changes nothing: no node appears under /alerts/{id} and no      *)
(* pushed alert, reading or status row is touched.                         *)
C29_UnknownAlertNotCreated ==
    /\ \A u \in UnknownIds : orphans[u] = EmptyRow
    /\ \A i \in DOMAIN ackLog :
          ~ackLog[i].known => (ackLog[i].code = 404 /\ ~ackLog[i].changed)

(* C30: under any interleaving of the callers, the SDK application is     *)
(* initialized at most once, and every call that begins once it is         *)
(* initialized returns True / a reference.                                 *)
C30_InitializedOnceThenAvailable ==
    /\ fb.inits <= 1
    /\ \A i \in DOMAIN fb.log :
          fb.log[i].began \in {"sdk_only", "app_set"} => fb.log[i].ref

\* The part of C30 for calls that begin once _firebase_app is assigned.
C30_AvailableAfterAssignment ==
    /\ fb.inits <= 1
    /\ \A i \in DOMAIN fb.log : fb.log[i].began = "app_set" => fb.log[i].ref

====
